---- MODULE Spec2Model ----
(***************************************************************************)
(* A model of nsgifts.client.NSGiftsClient (src/nsgifts/client.py): the    *)
(* token manager (_ensure_valid_token), the retrying request executor      *)
(* (_request_with_retries), the server-error cooldown ("circuit breaker"), *)
(* and the session manager (_ensure_session / close).                      *)
(*                                                                         *)
(* Scheduling is asyncio's: a task runs without interruption from one      *)
(* suspension point to the next.  The suspension points of the code are    *)
(* the network round trip of session.request (line 213), the wait for a    *)
(* held _token_lock (line 140) and the release of the session in close     *)
(* (line 106).  Every action below is one such uninterrupted run.          *)
(*                                                                         *)
(* The code of one run is written as a function from the client's state    *)
(* (a record w holding every field of the client and every task's frame)   *)
(* to the state at the next suspension, so that a handler that calls       *)
(* another is the composition of the two.                                  *)
(***************************************************************************)
EXTENDS Integers, FiniteSets, Sequences, TLC

\* ------------------------------------------------------------- bounds
MaxTime  == 2        \* the clock runs 0..MaxTime (seconds)
MaxOps   == 2        \* public operations started after the initial state

\* -------------------------------------------- constructor parameters
\* (the defaults are 3, 300 and 300; the model scales the two durations
\*  to the clock's range)
MaxRetries    == 2   \* max_retries
Cooldown      == 2   \* server_error_cooldown
RefreshBuffer == 1   \* token_refresh_buffer
DefaultTTL    == 5400 \* validity assumed when the server omits valid_thru

\* Three tasks share the client: any two of them in Spec, all three in the
\* specifications of the claims about concurrent callers.
AllTasks == {1, 2, 3}
Tasks    == {1, 2}
NoTask  == 0
None    == "None"
Omitted == -1

\* What the server may put in a login/signup response.
Tokens    == {"tokA", "tokB"}
ShortLife == RefreshBuffer + 1                \* expires early in the run
ValidThru == {ShortLife, Omitted}

\* What one network attempt can end in.
Outcomes == {"ok", "401", "4xx", "5xx", "conn", "timeout"}

VARIABLES
  now,                    \* int(time.time())
  token, token_expiry,    \* self.token, self.token_expiry
  email, password,        \* self.email, self.password
  session,                \* self.session: None or a session id
  closed,                 \* the sessions whose .closed is True
  created,                \* number of ClientSession objects constructed
  token_lock,             \* holder of self._token_lock, or NoTask
  server_error_detected,  \* self._server_error_detected
  server_error_timestamp, \* self._server_error_timestamp
  task,                   \* each task's frame (see IdleFrame)
  ops,                    \* public operations started so far
  hist                    \* history: the last 5xx since a reset, the 5xx that
                          \* the last reset overrode (SpecResets), what the call of
                          \* is_server_error_detected just made returned, and
                          \* the last 2xx login/signup response handled

vars == <<now, token, token_expiry, email, password, session, closed, created,
          token_lock, server_error_detected, server_error_timestamp, task,
          ops, hist>>

\* The client's state as one value, and its installation as the next state.
Cur ==
  [now |-> now, token |-> token, token_expiry |-> token_expiry,
   email |-> email, password |-> password, session |-> session,
   closed |-> closed, created |-> created, token_lock |-> token_lock,
   server_error_detected |-> server_error_detected,
   server_error_timestamp |-> server_error_timestamp,
   task |-> task, ops |-> ops, hist |-> hist]

Install(next) ==
  \E w \in {next} :      \* (next is computed once)
    /\ now' = w.now /\ token' = w.token /\ token_expiry' = w.token_expiry
    /\ email' = w.email /\ password' = w.password /\ session' = w.session
    /\ closed' = w.closed /\ created' = w.created
    /\ token_lock' = w.token_lock
    /\ server_error_detected' = w.server_error_detected
    /\ server_error_timestamp' = w.server_error_timestamp
    /\ task' = w.task /\ ops' = w.ops /\ hist' = w.hist

\* A task's frame.  op, pc, ev, refreshing, attempt are the position in the
\* code; the other fields record what the current operation has done.
IdleFrame ==
  [op         |-> "none",  \* the public operation: auth, login, signup, ensure, close
   pc         |-> "idle",  \* idle | net (awaiting a response) | lock | closing
   ev         |-> "none",  \* who called _ensure_valid_token: pre | h401 | direct
   refreshing |-> FALSE,   \* the request in flight is _ensure_valid_token's login
   attempt    |-> 0,       \* the loop variable of the operation's own request
   sentTok    |-> None,    \* token in the Authorization header of the request in flight
   reqSess    |-> 0,       \* session the request in flight was issued on
   result     |-> "none",  \* how the operation ended: ok or the exception raised
   remaining  |-> Omitted, \* cooldown_remaining of the message of line 207
   nreq       |-> 0,       \* network requests issued for the operation's own request
   nref       |-> 0,       \* refresh login requests issued by the operation
   href       |-> 0,       \* ... of them, those issued from the 401 handler
   n401       |-> 0,       \* 401 responses received by the operation's own request
   lastResp   |-> "none",  \* how the last network attempt ended
   lastAuth   |-> FALSE,   \* ... and whether that request was an auth request
   raised     |-> "none",  \* what the last _request_with_retries call raised
   chk        |-> "none",  \* what the locked check saw, if the last run made one
   sentOpen   |-> FALSE,   \* the breaker was open when the request in flight was issued
   startOpen  |-> FALSE,   \* (auth) the breaker was open when the operation started
   startFresh |-> FALSE,   \* (auth, ensure) the token needed no refresh at the start
   startEmpty |-> FALSE,   \* (close) the session handle was None at the start
   waited     |-> FALSE,   \* the operation has waited for the token lock
   gotTok     |-> None,    \* access_token of the refresh response it has received
   noSess     |-> FALSE,   \* an attempt found self.session None or closed
   sentCred   |-> <<>>]    \* email and password in the refresh login in flight

\* ------------------------------------------------------ pure helpers

\* (the comparison of line 138 taken as <=)
NeedsRefreshInclusive(tok, exp, time) == tok = None \/ exp - time <= RefreshBuffer

\* Lines 137-139 and 143-146: the token is absent or within the buffer.
NeedsRefresh(tok, exp, time) == tok = None \/ exp - time < RefreshBuffer

\* (line 147 taken as a check of the email alone)
HasEmail(w) == w.email # None

\* Line 147: both credentials are set.
HasCredentials(w) == w.email # None /\ w.password # None

\* (the comparison of line 293 taken as <)
IsCooldownExpiredStrict(w) == w.server_error_timestamp + Cooldown < w.now

\* _is_cooldown_expired, lines 288-293.
IsCooldownExpired(w) == w.server_error_timestamp + Cooldown <= w.now

\* (the guard without its first conjunct's effect: the flag is never consulted)
BreakerNeverBlocks(w, isAuth) == FALSE

\* (the guard with "not is_auth_request" taken as "is_auth_request")
BreakerBlocksAuth(w, isAuth) ==
  w.server_error_detected /\ ~IsCooldownExpired(w) /\ isAuth

\* (the guard without "not is_auth_request")
BreakerBlocksAll(w, isAuth) ==
  w.server_error_detected /\ ~IsCooldownExpired(w)

\* The guard of lines 197-201.
BreakerBlocks(w, isAuth) ==
  w.server_error_detected /\ ~IsCooldownExpired(w) /\ ~isAuth

\* is_auth_request of the request a frame is making: the refresh login of
\* line 159, login (line 331) and signup (line 358) pass True.
IsAuthRequest(fr) == fr.refreshing \/ fr.op \in {"login", "signup"}

\* What the history records of the locked check: the facts, not the branch.
Observed(w) ==
  IF w.token # None /\ w.token_expiry - w.now >= RefreshBuffer THEN "fresh"
  ELSE IF w.email = None \/ w.password = None THEN "nocreds"
  ELSE "needs"

\* (every exception of the try block taken by the clause of line 233)
ExceptionClauseStatus(exc) == "ClientResponseError"

\* Which except clause of lines 233-284 takes an exception raised in the try
\* block.  A 4xx/5xx status is a ClientResponseError (the session is created
\* with raise_for_status=True).  Anything else reaches the clause of line 261,
\* whose tuple names aiohttp.ClientTimeout, a configuration class that is not
\* an exception: matching against it raises TypeError, which leaves the call.
ExceptionClause(exc) ==
  IF exc \in {"401", "4xx", "5xx"} THEN "ClientResponseError" ELSE "TypeError"

\* Lines 152-160: no handler surrounds the refresh request, so what it raises
\* leaves _ensure_valid_token unchanged.
RefreshError(err) == err

\* Lines 245-250: the 401 handler catches APIAuthenticationError and raises a
\* new one; every other exception passes through it.
Handler401Error(err) ==
  IF err = "APIAuthenticationError" THEN "APIAuthenticationError" ELSE err

\* ------------------------------------------- the code, run by run

\* The public operation of task t ends with res (ok or the exception).
Finish(w, t, res) ==
  [w EXCEPT !.task[t].pc = "idle", !.task[t].result = res,
            !.task[t].ev = "none", !.task[t].refreshing = FALSE,
            !.task[t].attempt = 0, !.task[t].sentTok = None,
            !.task[t].reqSess = 0, !.task[t].sentOpen = FALSE,
            !.task[t].gotTok = None, !.task[t].waited = FALSE,
            !.task[t].sentCred = <<>>]

\* An exception leaves _ensure_valid_token (its lock already released).
EnsureValidRaised(w, t, err) ==
  IF w.task[t].ev = "h401" THEN Finish(w, t, Handler401Error(err))
  ELSE Finish(w, t, err)

\* (the lock stays held when an exception leaves the block of line 140)
LockKeptOnRaise(w) == w

\* An exception leaves "async with self._token_lock" (line 140): the lock is
\* released.
LockExitOnRaise(w) == [w EXCEPT !.token_lock = NoTask]

\* An exception leaves _request_with_retries.  From the refresh request it
\* passes through "async with self._token_lock", which releases the lock.
RaiseOut(w, t, err) ==
  LET w0 == [w EXCEPT !.task[t].raised = err]
  IN  IF w.task[t].refreshing
      THEN EnsureValidRaised(
             LockExitOnRaise([w0 EXCEPT !.task[t].refreshing = FALSE]),
             t, RefreshError(err))
      ELSE Finish(w0, t, err)

\* (both checks of lines 122 and 124 left out)
EnsureSessionAlways(w) ==
  [w EXCEPT !.session = w.created + 1, !.created = w.created + 1]

\* _ensure_session, lines 120-128.  The lock is free whenever it is reached
\* (nothing suspends while it is held), so check, lock, re-check and creation
\* are one run.
EnsureSession(w) ==
  IF w.session = 0 \/ w.session \in w.closed
  THEN [w EXCEPT !.session = w.created + 1, !.created = w.created + 1]
  ELSE w

\* Lines 212-219: the request is issued on self.session with the headers of
\* _get_headers.  A session that is None or closed raises at once inside the
\* try block (AttributeError, RuntimeError), which line 261 turns to TypeError.
SendRequest(w, t) ==
  IF w.session = 0 \/ w.session \in w.closed
  THEN RaiseOut([w EXCEPT !.task[t].noSess = TRUE], t, ExceptionClause("other"))
  ELSE [w EXCEPT !.task[t].pc = "net",
                 !.task[t].sentTok = w.token,
                 !.task[t].reqSess = w.session,
                 !.task[t].sentOpen =
                    w.hist.last5xx # Omitted
                    /\ w.now < w.hist.last5xx + Cooldown,
                 !.task[t].lastResp = "none",
                 !.task[t].nreq = IF w.task[t].refreshing THEN @ ELSE @ + 1,
                 !.task[t].nref = IF w.task[t].refreshing THEN @ + 1 ELSE @,
                 !.task[t].href = IF w.task[t].refreshing /\ w.task[t].ev = "h401"
                                  THEN @ + 1 ELSE @]

\* (the range of line 196 taken one longer)
LoopEndedLate(a) == a > MaxRetries

\* Line 196: attempt has run through range(self._max_retries).
LoopEnded(a) == a >= MaxRetries

\* One iteration of the loop of line 196, with loop variable a; past the
\* range the loop ends and line 286 raises.
LoopIteration(w, t, a) ==
  IF LoopEnded(a) THEN RaiseOut(w, t, "APIError")
  ELSE IF BreakerBlocks(w, IsAuthRequest(w.task[t]))
  THEN RaiseOut(
         [w EXCEPT !.task[t].remaining =
                      w.server_error_timestamp + Cooldown - w.now],
         t, "APIServerError")
  ELSE SendRequest(
         [w EXCEPT !.task[t].attempt = IF w.task[t].refreshing THEN @ ELSE a],
         t)

\* _request_with_retries up to its first suspension, lines 192-219.
RequestWithRetries(w, t) == LoopIteration(EnsureSession(w), t, 0)

\* _ensure_valid_token has returned: its caller goes on.
AfterEnsureValid(w, t) ==
  LET ev == w.task[t].ev
      w1 == [w EXCEPT !.task[t].ev = "none"]
  IN  IF ev = "pre" THEN RequestWithRetries(w1, t)                 \* line 640
      ELSE IF ev = "h401"
      THEN LoopIteration(w1, t, w.task[t].attempt + 1)             \* line 244
      ELSE Finish(w1, t, "ok")

\* (the re-check left out: whoever holds the lock refreshes)
RecheckSkipped(w) == TRUE

\* The re-check made while holding the lock, lines 142-146.
Recheck(w) == NeedsRefresh(w.token, w.token_expiry, w.now)

\* _ensure_valid_token holding the lock, lines 141-161.
InLock(w, t) ==
  LET w0 == [w EXCEPT !.task[t].chk = Observed(w)]
      free == [w0 EXCEPT !.token_lock = NoTask]
  IN  IF Recheck(w)
      THEN IF ~HasCredentials(w)
           THEN EnsureValidRaised(LockExitOnRaise(w0), t, "APIAuthenticationError")
           ELSE RequestWithRetries(
                  [w0 EXCEPT !.task[t].refreshing = TRUE,
                             !.task[t].pc = "net",
                             !.task[t].sentCred = <<w.email, w.password>>], t)
      ELSE AfterEnsureValid(free, t)

\* (the lock of line 140 taken without waiting for its holder)
EnsureValidTokenBarging(w, t) ==
  IF NeedsRefresh(w.token, w.token_expiry, w.now)
  THEN InLock([w EXCEPT !.token_lock = t], t)
  ELSE AfterEnsureValid(w, t)

\* _ensure_valid_token, lines 136-140: the unlocked check, then the lock.
\* An asyncio.Lock is taken at once only if it is free and no task is queued
\* for it.
EnsureValidToken(w, t) ==
  IF NeedsRefresh(w.token, w.token_expiry, w.now)
  THEN IF w.token_lock = NoTask /\ \A u \in AllTasks : w.task[u].pc # "lock"
       THEN InLock([w EXCEPT !.token_lock = t], t)
       ELSE [w EXCEPT !.task[t].pc = "lock"]
  ELSE AfterEnsureValid(w, t)

\* (a 5xx taken as transient: the loop goes on to its next iteration)
OnServerErrorRetry(w, t) ==
  LoopIteration(
    [w EXCEPT !.server_error_detected = TRUE,
              !.server_error_timestamp = w.now],
    t, w.task[t].attempt + 1)

\* Lines 255-260: a 5xx status trips the breaker and ends the call.
OnServerError(w, t) ==
  RaiseOut(
    [w EXCEPT !.server_error_detected = TRUE,
              !.server_error_timestamp = w.now],
    t, "APIServerError")

\* The except clauses of lines 233-284, for an exception exc of the try block.
HandleException(w, t, exc) ==
  LET fr == w.task[t]
      isAuth == IsAuthRequest(fr)
      w0 == [w EXCEPT
               !.task[t].lastResp = exc,
               !.task[t].lastAuth = isAuth,
               !.task[t].n401 = IF exc = "401" /\ ~fr.refreshing THEN @ + 1 ELSE @]
  IN  IF ExceptionClause(exc) = "ClientResponseError"
      THEN IF exc \in {"401", "4xx"}
           THEN IF exc = "401" /\ ~isAuth
                THEN EnsureValidToken([w0 EXCEPT !.task[t].ev = "h401"], t)
                ELSE RaiseOut(w0, t, "APIClientError")
           ELSE OnServerError(w0, t)
      ELSE RaiseOut(w0, t, ExceptionClause(exc))

\* (valid_thru taken as a number of seconds from now)
TokenExpiryRelative(vt, time) ==
  time + (IF vt = Omitted THEN DefaultTTL ELSE vt)

\* Lines 227-229: result.get("valid_thru", int(time.time()) + 5400).
TokenExpiry(vt, time) == IF vt = Omitted THEN time + DefaultTTL ELSE vt

\* (the response of the refresh login is not taken as a token response)
IsTokenEndpointNoRefresh(fr) == fr.op \in {"login", "signup"}

\* Lines 222-225: the endpoint is the login or the signup endpoint.
IsTokenEndpoint(fr) == fr.refreshing \/ fr.op \in {"login", "signup"}

\* Lines 220-231: a 2xx response with access_token tok and valid_thru vt.
HandleSuccess(w, t, tok, vt) ==
  LET fr == w.task[t]
      w0 == [w EXCEPT !.task[t].lastResp = "ok",
                      !.task[t].lastAuth = IsAuthRequest(fr)]
      w1 == IF IsTokenEndpoint(fr)
            THEN [w0 EXCEPT !.token = tok,
                            !.token_expiry = TokenExpiry(vt, w.now)]
            ELSE w0
  IN  IF fr.refreshing
      THEN AfterEnsureValid(
             [w1 EXCEPT !.token_lock = NoTask, !.task[t].refreshing = FALSE], t)
      ELSE Finish(w1, t, "ok")

\* A fresh frame for a public operation that starts in state w.
StartFrame(w, name) ==
  [IdleFrame EXCEPT
     !.op = name,
     !.startOpen = /\ name = "auth"
                   /\ w.hist.last5xx # Omitted
                   /\ w.now < w.hist.last5xx + Cooldown,
     !.startFresh = /\ name \in {"auth", "ensure"}
                    /\ w.token # None
                    /\ w.token_expiry - w.now >= RefreshBuffer,
     !.startEmpty = name = "close" /\ w.session = 0]

Started(w, t, name) ==
  [w EXCEPT !.task[t] = StartFrame(w, name), !.ops = w.ops + 1]

\* _make_authenticated_request, lines 635-640.
MakeAuthenticatedRequest(w, t) ==
  IF w.token = None /\ ~(w.email # None /\ w.password # None)
  THEN Finish(w, t, "APIAuthenticationError")
  ELSE EnsureValidToken([w EXCEPT !.task[t].ev = "pre"], t)

\* (lines 327-328 left out: the credentials are not stored)
LoginKeepsCredentials(w, t, e, p) == RequestWithRetries(w, t)

\* login, lines 327-332.
Login(w, t, e, p) ==
  RequestWithRetries([w EXCEPT !.email = e, !.password = p], t)

\* signup, lines 353-359.
Signup(w, t, e) == RequestWithRetries([w EXCEPT !.email = e], t)

\* is_server_error_detected, lines 301-303: the value it returns ...
IsServerErrorDetected(w) ==
  IF w.server_error_detected /\ IsCooldownExpired(w) THEN FALSE
  ELSE w.server_error_detected

\* (line 307 left out: the flag stays set)
ResetKeepsFlag(w) == [w EXCEPT !.server_error_timestamp = 0]

\* reset_server_error_state, lines 307-308.
ResetServerErrorState(w) ==
  [w EXCEPT !.server_error_detected = FALSE, !.server_error_timestamp = 0]

\* (line 107 left out: the handle keeps the closed session)
CloseHandleKept(w) == w

\* close, line 107: self.session = None.
CloseHandle(w) == [w EXCEPT !.session = 0]

\* ------------------------------------------------------ initial states

\* The client as __init__ leaves it, lines 79-92.
Fresh ==
  [now |-> 0, token |-> None, token_expiry |-> 0,
   email |-> None, password |-> None, session |-> 0,
   closed |-> {}, created |-> 0, token_lock |-> NoTask,
   server_error_detected |-> FALSE, server_error_timestamp |-> 0,
   task |-> [t \in AllTasks |-> IdleFrame], ops |-> 0,
   hist |-> [last5xx |-> Omitted, resetOf |-> Omitted, isOpen |-> "none",
             resp |-> <<>>]]

\* The client after task 1 has logged in at time 0 and the server has
\* answered with tokA and valid_thru vt: the state the operators below give.
LoggedIn(vt) ==
  [HandleSuccess(Login(Started(Fresh, 1, "login"), 1, "e1", "p1"), 1, "tokA", vt)
     EXCEPT !.ops = 0,
            !.hist.resp = <<"tokA", vt, IF vt = Omitted THEN 0 ELSE Omitted>>]

\* A behaviour starts with the client just constructed, or just logged in.
Init ==
  \E w \in {Fresh} \cup {LoggedIn(vt) : vt \in ValidThru} :
    /\ now = w.now /\ token = w.token /\ token_expiry = w.token_expiry
    /\ email = w.email /\ password = w.password /\ session = w.session
    /\ closed = w.closed /\ created = w.created
    /\ token_lock = w.token_lock
    /\ server_error_detected = w.server_error_detected
    /\ server_error_timestamp = w.server_error_timestamp
    /\ task = w.task /\ ops = w.ops /\ hist = w.hist

\* ------------------------------------------------------------ actions

\* Idle tasks are interchangeable: the one with the least id starts.
CanStart(t) ==
  /\ task[t].pc = "idle" /\ ops < MaxOps
  /\ \A u \in Tasks : u < t => task[u].pc # "idle"

\* One run of the code ends in state w.  What a call of
\* is_server_error_detected returned is remembered until the next run.
Step(w) == Install([w EXCEPT !.hist.isOpen = "none"])

\* The state a suspended task t resumes in.
Resumed(t) == [Cur EXCEPT !.task[t].chk = "none"]

\* ... when it resumes with a 2xx response: the history keeps the token of a
\* response to a refresh login.
Received(w, t, tok) ==
  IF w.task[t].refreshing THEN [w EXCEPT !.task[t].gotTok = tok] ELSE w

\* The run that handled a 2xx response of task t ends in state w.  If the
\* request was a login or a signup request (a refresh included), the history
\* keeps the body of the response and, if it has no valid_thru, the time of
\* its receipt.
StepResponse(w, t, tok, vt) ==
  IF task[t].refreshing \/ task[t].op \in {"login", "signup"}
  THEN Step([w EXCEPT !.hist.resp = <<tok, vt, IF vt = Omitted THEN now ELSE Omitted>>])
  ELSE Step(w)

StartAuth(t) ==
  /\ CanStart(t)
  /\ Step(MakeAuthenticatedRequest(Started(Cur, t, "auth"), t))

StartLogin(t) ==
  /\ CanStart(t)
  /\ Step(Login(Started(Cur, t, "login"), t, "e1", "p1"))

StartSignup(t) ==
  /\ CanStart(t)
  /\ Step(Signup(Started(Cur, t, "signup"), t, "e2"))

\* A direct call of _ensure_valid_token, the first of task t.
StartEnsure(t) ==
  /\ task[t].pc = "idle" /\ task[t].op # "ensure"
  /\ Step(EnsureValidToken(
            [Started(Cur, t, "ensure") EXCEPT !.task[t].ev = "direct"], t))

\* The request in flight of task t gets a 2xx response.
RespondOk(t) ==
  /\ task[t].pc = "net"
  /\ \E tok \in Tokens, vt \in ValidThru :
       /\ IsTokenEndpoint(task[t]) \/ (tok = "tokA" /\ vt = Omitted)
       /\ StepResponse(HandleSuccess(Received(Resumed(t), t, tok), t, tok, vt),
                       t, tok, vt)

\* The request in flight of task t fails: an error status, or no response.
RespondError(t) ==
  /\ task[t].pc = "net"
  /\ \E exc \in Outcomes \ {"ok"} :
       LET w == HandleException(Resumed(t), t, exc)
       IN  Step(IF exc = "5xx"
                THEN [w EXCEPT !.hist.last5xx = now, !.hist.resetOf = Omitted]
                ELSE w)

\* A task waiting for the token lock gets it once it is free.
AcquireLock(t) ==
  /\ task[t].pc = "lock"
  /\ token_lock = NoTask
  /\ Step(InLock([Resumed(t) EXCEPT !.token_lock = t,
                                   !.task[t].waited = TRUE], t))

\* close, lines 105-107.  session.close() marks the session closed and may
\* suspend while its connections are released; self.session = None follows.
CloseBegin(t) ==
  /\ CanStart(t)
  /\ LET w == Started(Cur, t, "close")
     IN  IF w.session # 0 /\ w.session \notin w.closed
         THEN \/ Step([w EXCEPT !.closed = @ \cup {w.session},
                                !.task[t].pc = "closing"])
              \/ Step(Finish(CloseHandle([w EXCEPT !.closed = @ \cup {w.session}]),
                             t, "ok"))
         ELSE Step(Finish(w, t, "ok"))

CloseEnd(t) ==
  /\ task[t].pc = "closing"
  /\ Step(Finish(CloseHandle(Resumed(t)), t, "ok"))

\* A call of is_server_error_detected.
CheckServerError ==
  /\ Install([Cur EXCEPT !.server_error_detected = IsServerErrorDetected(Cur),
                         !.hist.isOpen =
                            IF hist.last5xx = Omitted /\ hist.resetOf = Omitted
                            THEN "none"
                            ELSE IF IsServerErrorDetected(Cur) THEN "yes"
                            ELSE "no"])

\* A call of reset_server_error_state.
Reset ==
  /\ server_error_detected \/ server_error_timestamp # 0
  /\ Step([ResetServerErrorState(Cur) EXCEPT !.hist.last5xx = Omitted])

\* The clock advances.
Tick == now < MaxTime /\ Step([Cur EXCEPT !.now = now + 1])

Next ==
  \/ \E t \in Tasks : StartAuth(t)
  \/ \E t \in Tasks : StartLogin(t)
  \/ \E t \in Tasks : StartSignup(t)
  \/ \E t \in Tasks : RespondOk(t)
  \/ \E t \in Tasks : RespondError(t)
  \/ \E t \in Tasks : AcquireLock(t)
  \/ \E t \in Tasks : CloseBegin(t)
  \/ \E t \in Tasks : CloseEnd(t)
  \/ CheckServerError
  \/ Reset
  \/ Tick

Spec == Init /\ [][Next]_vars

\* ---------------------------------------------------------------------
\* Manual resets of the breaker: the tasks make as many authenticated
\* requests as there are tasks, the server may answer anything, and the history
\* keeps which 5xx a reset overrode.
CallAuth(t) == ops < Cardinality(Tasks) /\ StartAuth(t)

ResetRecorded ==
  /\ server_error_detected \/ server_error_timestamp # 0
  /\ Step([ResetServerErrorState(Cur) EXCEPT !.hist.last5xx = Omitted,
                                             !.hist.resetOf = hist.last5xx])

NextResets ==
  \/ \E t \in Tasks : CallAuth(t)
  \/ \E t \in Tasks : RespondOk(t)
  \/ \E t \in Tasks : RespondError(t)
  \/ \E t \in Tasks : AcquireLock(t)
  \/ CheckServerError
  \/ ResetRecorded
  \/ Tick

SpecResets == Init /\ [][NextResets]_vars

\* ---------------------------------------------------------------------
\* Calls against a server that may answer anything: as many authenticated
\* requests as there are tasks (CallAuth), under the scheduling the event loop gives: a
\* request in flight is eventually answered or fails, and a task queued for
\* the token lock is resumed once the lock is free.
NextCalls ==
  \/ \E t \in Tasks : CallAuth(t)
  \/ \E t \in Tasks : RespondOk(t)
  \/ \E t \in Tasks : RespondError(t)
  \/ \E t \in Tasks : AcquireLock(t)
  \/ Tick

Fairness ==
  \A t \in Tasks :
    /\ WF_vars(RespondOk(t) \/ RespondError(t))
    /\ WF_vars(AcquireLock(t))

SpecCalls == Init /\ [][NextCalls]_vars /\ Fairness

\* ---------------------------------------------------------------------
\* Concurrent callers of _ensure_valid_token: every task calls it once, on a
\* client whose credentials are set, and the server answers each refresh
\* login with a token and no valid_thru (so it is valid DefaultTTL seconds).

\* The client after a login at time 0 that the server refused: the
\* credentials are stored and there is no token.
LoginRefused ==
  [HandleException(Login(Started(Fresh, 1, "login"), 1, "e1", "p1"), 1, "4xx")
     EXCEPT !.ops = 0]

InitCallers ==
  \E w \in {LoginRefused, LoggedIn(ShortLife)} :
    /\ now = w.now /\ token = w.token /\ token_expiry = w.token_expiry
    /\ email = w.email /\ password = w.password /\ session = w.session
    /\ closed = w.closed /\ created = w.created
    /\ token_lock = w.token_lock
    /\ server_error_detected = w.server_error_detected
    /\ server_error_timestamp = w.server_error_timestamp
    /\ task = w.task /\ ops = w.ops /\ hist = w.hist

RefreshAnswered(t) ==
  /\ task[t].pc = "net"
  /\ \E tok \in Tokens :
       StepResponse(HandleSuccess(Received(Resumed(t), t, tok), t, tok, Omitted),
                    t, tok, Omitted)

NextCallers ==
  \/ \E t \in AllTasks : StartEnsure(t)
  \/ \E t \in AllTasks : RefreshAnswered(t)
  \/ \E t \in AllTasks : AcquireLock(t)
  \/ Tick

SpecCallers == InitCallers /\ [][NextCallers]_vars

\* ---------------------------------------------------------------------
\* The claims.

Fresh_(tok, exp, time) == tok # None /\ exp - time >= RefreshBuffer
CredsSet == email # None /\ password # None
InWindow == hist.last5xx # Omitted /\ now < hist.last5xx + Cooldown

RECURSIVE SumRefresh(_)
SumRefresh(S) ==
  IF S = {} THEN 0
  ELSE LET t == CHOOSE x \in S : TRUE
       IN  (IF task[t].op = "ensure" THEN task[t].nref ELSE 0)
           + SumRefresh(S \ {t})

\* C1: however many tasks call _ensure_valid_token while the token is absent or
\* within the buffer (credentials set, every refresh login answered with a
\* token that expires beyond the buffer), one refresh login request is issued
\* in all, and every caller that has returned did so normally, with a token
\* that is present and not within the buffer.
C1_OneRefresh ==
  /\ SumRefresh(AllTasks) <= 1
  /\ \A t \in AllTasks :
       (task[t].op = "ensure" /\ ~task[t].startFresh /\ task[t].pc = "idle")
         => /\ task[t].result = "ok"
            /\ SumRefresh(AllTasks) = 1
            /\ Fresh_(token, token_expiry, now)

\* Three callers that all found the token stale have all returned.
C1_Witness ==
  \A t \in AllTasks :
    task[t].op = "ensure" /\ ~task[t].startFresh /\ task[t].pc = "idle"

\* C2 (as claimed): every 401 on a non-auth request is followed by exactly one
\* refresh login request and one re-issue; a second 401 ends the call with
\* APIAuthenticationError and no further refresh.
C2_Claimed ==
  \A t \in Tasks :
    (task[t].op = "auth" /\ CredsSet)
      => /\ (task[t].n401 >= 1 /\ task[t].pc # "lock") => task[t].href = 1
         /\ task[t].n401 >= 2
              => (task[t].pc = "idle"
                  /\ task[t].result = "APIAuthenticationError")

\* C3 (as claimed): a call whose every attempt ends in a connection failure or
\* a timeout has made max_retries attempts when it fails, and fails with
\* APIConnectionError or APITimeoutError according to the last failure.
C3_Claimed ==
  \A t \in Tasks :
    (/\ task[t].pc = "idle"
     /\ task[t].lastResp \in {"conn", "timeout"}
     /\ task[t].n401 = 0
     /\ (task[t].op \in {"login", "signup"} \/ ~task[t].lastAuth))
      => /\ task[t].nreq = MaxRetries
         /\ task[t].result = IF task[t].lastResp = "conn"
                             THEN "APIConnectionError" ELSE "APITimeoutError"

\* C4: from a 5xx response at time s until a reset or a further 5xx, the
\* breaker holds tripped with timestamp s while now < s + cooldown;
\* is_server_error_detected returns true when called at such a time, and when
\* called at a time >= s + cooldown it returns false and has cleared the flag.
C4_Window ==
  hist.last5xx # Omitted
    => /\ InWindow => /\ server_error_detected
                      /\ server_error_timestamp = hist.last5xx
                      /\ hist.isOpen # "no"
       /\ hist.isOpen = "yes" => InWindow
       /\ hist.isOpen = "no" => ~InWindow /\ ~server_error_detected

\* A check made after the cooldown has returned false.
C4_Witness == hist.isOpen = "no" /\ hist.last5xx # Omitted

\* C5 (as claimed): the error raised for an open breaker is of a kind other
\* than the one raised for a 5xx response.
C5_Claimed ==
  \A t \in Tasks :
    task[t].remaining # Omitted => task[t].result # "APIServerError"

\* C5 (amended): a non-auth call that reaches an attempt while the breaker is
\* open fails at once with APIServerError, the kind a 5xx raises, carrying
\* the remaining cooldown seconds; no request is issued for that attempt.
C5_Busy ==
  \A t \in Tasks :
    /\ task[t].remaining # Omitted
         => /\ task[t].pc = "idle"
            /\ task[t].result = "APIServerError"
            /\ task[t].raised = "APIServerError"
            /\ task[t].remaining \in 1..Cooldown
            /\ task[t].nreq = task[t].n401
            /\ task[t].lastResp # "5xx"
    /\ (task[t].pc = "net" /\ ~task[t].refreshing /\ task[t].op = "auth")
         => ~task[t].sentOpen

\* A call was turned away by the open breaker.
C5_Witness == \E t \in Tasks : task[t].remaining # Omitted

\* C6 (as claimed): an authenticated operation started while the breaker is
\* open fails at once and issues no network request at all.
C6_Claimed ==
  \A t \in Tasks :
    (task[t].op = "auth" /\ task[t].startOpen)
      => /\ task[t].pc = "idle"
         /\ task[t].nreq = 0 /\ task[t].nref = 0

\* C6 (amended): ... provided the token is present and outside the refresh
\* buffer when the operation starts.
C6_BusyWhenFresh ==
  \A t \in Tasks :
    (task[t].op = "auth" /\ task[t].startOpen /\ task[t].startFresh)
      => /\ task[t].pc = "idle"
         /\ task[t].result = "APIServerError"
         /\ task[t].remaining # Omitted
         /\ task[t].nreq = 0 /\ task[t].nref = 0

\* An operation started with a fresh token, a second after the 5xx that ended
\* an earlier call, has been turned away without a request.
C6_Witness ==
  \E t \in Tasks :
    /\ task[t].op = "auth" /\ task[t].startOpen /\ task[t].startFresh
    /\ task[t].result = "APIServerError" /\ task[t].lastResp = "none"
    /\ server_error_timestamp < now

C8_Inv ==
  \A t \in Tasks :
    /\ task[t].refreshing <=> task[t].chk = "needs"
    /\ task[t].chk = "nocreds"
         => /\ task[t].pc = "idle"
            /\ task[t].result = "APIAuthenticationError"
            /\ token_lock # t
    /\ task[t].chk = "fresh" => token_lock # t

C8_Act ==
  \A t \in Tasks :
    (task'[t] # task[t] /\ task'[t].chk \in {"fresh", "nocreds"})
      => /\ token' = token /\ token_expiry' = token_expiry
         /\ email' = email /\ password' = password
         /\ task'[t].nref = (IF task[t].pc = "idle" THEN 0 ELSE task[t].nref)

C8_RefreshIff == []C8_Inv /\ [][C8_Act]_vars

\* A task that waited for the lock found the token fresh under it.
C8_Witness == \E t \in Tasks : task[t].chk = "fresh"

\* C9 (as claimed): an operation that ended because its refresh login request
\* failed has raised APIAuthenticationError.
C9_Claimed ==
  \A t \in Tasks :
    (/\ task[t].op = "auth" /\ task[t].pc = "idle"
     /\ task[t].lastAuth /\ task[t].lastResp \notin {"ok", "none"})
      => task[t].result = "APIAuthenticationError"

\* C10: while no session has been closed, at most one session has been
\* created, it is the client's handle, and every request in flight was issued
\* on it.
C10_OneSession ==
  closed = {}
    => /\ created <= 1
       /\ session = created
       /\ \A t \in Tasks : task[t].pc = "net" => task[t].reqSess = session

\* Two requests in flight share the one session.
C10_Witness ==
  /\ closed = {} /\ created = 1
  /\ \A t \in Tasks : task[t].pc = "net" /\ task[t].reqSess = 1

\* C11: a close that finds the handle empty (the second of two in a row, or
\* one on a client that never created a session) returns at once without an
\* error and the handle stays empty; every close that returns while no other
\* close is in progress leaves the handle empty; and an authenticated
\* operation started on an empty handle that issues a request has created a
\* new session, stored it in the handle and issued the request on it.
C11_Inv ==
  \A t \in Tasks :
    /\ (task[t].op = "close" /\ task[t].pc = "idle") => task[t].result = "ok"
    /\ (task[t].op = "close" /\ task[t].startEmpty) => task[t].pc = "idle"

C11_Act ==
  \A t \in Tasks :
    /\ (/\ task'[t] # task[t]
        /\ task'[t].op = "close" /\ task'[t].pc = "idle"
        /\ \A u \in Tasks \ {t} : task[u].pc # "closing")
         => session' = 0
    /\ (/\ task[t].pc = "idle" /\ session = 0
        /\ task'[t].op = "auth" /\ task'[t].pc = "net")
         => /\ created' = created + 1
            /\ session' = created' /\ session' \notin closed'
            /\ task'[t].reqSess = session'

C11_Idempotent == []C11_Inv /\ [][C11_Act]_vars

\* A close has closed a session, and a later close found the handle empty.
C11_Witness ==
  \E t \in Tasks :
    /\ task[t].op = "close" /\ task[t].startEmpty /\ task[t].pc = "idle"
    /\ closed # {} /\ session = 0

\* C12: after reset_server_error_state, until the next 5xx, the breaker is
\* closed however little of the cooldown has elapsed: the flag is clear, a
\* call of is_server_error_detected returns false, no call is turned away, and
\* an authenticated operation started with a fresh token issues its request.
C12_Inv ==
  hist.resetOf # Omitted
    => /\ ~server_error_detected /\ server_error_timestamp = 0
       /\ hist.isOpen # "yes"

C12_Act ==
  hist.resetOf # Omitted
    => \A t \in Tasks :
         /\ task'[t].remaining # Omitted => task'[t] = task[t]
         /\ (/\ task[t].pc = "idle" /\ task'[t] # task[t]
             /\ task'[t].op = "auth" /\ task'[t].startFresh)
              => task'[t].pc = "net" /\ task'[t].nreq = 1

C12_ResetCloses == []C12_Inv /\ [][C12_Act]_vars

\* A request is in flight, issued after a reset, inside the cooldown of the
\* 5xx that the reset overrode.
C12_Witness ==
  \E t \in Tasks :
    /\ task[t].op = "auth" /\ task[t].pc = "net" /\ ~task[t].refreshing
    /\ hist.resetOf # Omitted /\ now < hist.resetOf + Cooldown

\* C13: at every moment at most one refresh login request is in flight, and
\* the task it belongs to holds the token lock, whether _ensure_valid_token
\* was called before the request or from the 401 handler.
C13_OneInFlight ==
  /\ Cardinality({t \in Tasks : task[t].refreshing}) <= 1
  /\ \A t \in Tasks :
       /\ task[t].refreshing => task[t].pc = "net" /\ token_lock = t
       /\ token_lock = t => task[t].refreshing

\* The refresh started by a 401 handler is in flight while a task that
\* called _ensure_valid_token before its request waits for the lock.
C13_Witness ==
  \E t, u \in Tasks :
    /\ task[t].refreshing /\ task[t].ev = "h401" /\ task[t].pc = "net"
    /\ task[u].pc = "lock" /\ task[u].ev = "pre"

\* C14 (as claimed): an authenticated operation started with the token absent
\* or within the buffer has, when its own first request is in flight, issued
\* exactly one refresh login request, and that request carries the token of
\* the refresh response.
C14_Claimed ==
  \A t \in Tasks :
    (/\ task[t].op = "auth" /\ ~task[t].startFresh
     /\ task[t].pc = "net" /\ ~task[t].refreshing /\ task[t].n401 = 0)
      => task[t].nref = 1 /\ task[t].sentTok = task[t].gotTok

\* C14 (amended): ... exactly one, unless it had to wait for the token lock
\* and found the token fresh once it held it (another task's refresh or login
\* had installed one), in which case it has issued none; either way the
\* refresh is over before the request is issued, and the request carries the
\* token installed by it.
C14_RefreshFirst ==
  \A t \in Tasks :
    (/\ task[t].op = "auth" /\ ~task[t].startFresh
     /\ task[t].pc = "net" /\ ~task[t].refreshing /\ task[t].n401 = 0)
      => /\ task[t].nreq = 1 /\ task[t].sentTok # None
         /\ \/ /\ task[t].nref = 1 /\ task[t].href = 0
               /\ task[t].gotTok # None /\ task[t].sentTok = task[t].gotTok
            \/ /\ task[t].nref = 0 /\ task[t].waited
               /\ task[t].gotTok = None

\* An operation that did not wait has refreshed, received tokB in place of
\* tokA, and its own request is in flight.
C14_Witness ==
  \E t \in Tasks :
    /\ task[t].op = "auth" /\ ~task[t].startFresh /\ ~task[t].waited
    /\ task[t].pc = "net" /\ ~task[t].refreshing /\ task[t].n401 = 0
    /\ task[t].nref = 1 /\ task[t].sentTok = "tokB"

\* C15: at every moment the stored token is the access_token of the last
\* 2xx response to a login or signup request (a refresh included), and its
\* expiry is that response's valid_thru as given, or the time of receipt
\* + 5400 when valid_thru was omitted; before any such response they are as
\* constructed.  So the two change together, and nothing else changes them,
\* a 2xx response on another endpoint included.
C15_TokenInstalled ==
  IF hist.resp = <<>>
  THEN token = None /\ token_expiry = 0
  ELSE /\ token = hist.resp[1]
       /\ token_expiry = IF hist.resp[2] = Omitted THEN hist.resp[3] + DefaultTTL
                         ELSE hist.resp[2]

\* A refresh answered with tokB, valid until time 2, has replaced tokA, and
\* the operation's own request has since been answered with 2xx.
C15_Witness ==
  /\ hist.resp = <<"tokB", ShortLife, Omitted>> /\ now = 1
  /\ \E t \in Tasks :
       /\ task[t].op = "auth" /\ task[t].nref = 1
       /\ task[t].pc = "idle" /\ task[t].result = "ok"

\* C16: a login, a signup and the refresh login of _ensure_valid_token are
\* never turned away by the breaker: every login or signup call that has
\* ended has issued its request, and the run of a locked check that found the
\* token stale and the credentials set has left the refresh request in
\* flight; and a 5xx response to such a request sets the flag and the
\* timestamp to the time of the response.
C16_Inv ==
  \A t \in Tasks :
    /\ task[t].op \in {"login", "signup"}
         => /\ task[t].remaining = Omitted
            /\ task[t].pc = "idle" => task[t].nreq = 1
    /\ task[t].chk = "needs" => task[t].pc = "net" /\ task[t].refreshing

C16_Act ==
  \A t \in Tasks :
    (/\ task[t].pc = "net"
     /\ task[t].refreshing \/ task[t].op \in {"login", "signup"}
     /\ task'[t].lastResp = "5xx")
      => server_error_detected' /\ server_error_timestamp' = now

C16_AuthExempt == []C16_Inv /\ [][C16_Act]_vars

\* A refresh login was issued a second after a 5xx, inside the cooldown.
C16_Witness ==
  \E t \in Tasks :
    /\ task[t].pc = "net" /\ task[t].refreshing /\ task[t].sentOpen
    /\ server_error_detected /\ server_error_timestamp < now

\* C17: the flag is set only by the run that handles a 5xx response; the run
\* that handles any other outcome of a request (2xx, 401, another 4xx, a
\* connection failure, a timeout) leaves the flag and the timestamp as they
\* were; and the run that handles a connection failure or a timeout leaves
\* the token, its expiry, the session handle, the sessions and every other
\* task's frame as they were.
C17_Act ==
  /\ (server_error_detected' /\ ~server_error_detected)
       => \E t \in Tasks : task[t].pc = "net" /\ task'[t].lastResp = "5xx"
  /\ \A t \in Tasks :
       /\ (task[t].pc = "net" /\ task'[t] # task[t] /\ task'[t].lastResp # "5xx")
            => /\ server_error_detected' = server_error_detected
               /\ server_error_timestamp' = server_error_timestamp
       /\ (task[t].pc = "net" /\ task'[t].lastResp \in {"conn", "timeout"})
            => /\ token' = token /\ token_expiry' = token_expiry
               /\ session' = session /\ closed' = closed /\ created' = created
               /\ \A u \in Tasks \ {t} : task'[u] = task[u]

C18_Bounded ==
  \A t \in Tasks :
    /\ task[t].nreq <= MaxRetries /\ task[t].n401 <= task[t].nreq
    /\ task[t].href <= task[t].n401
    /\ task[t].nref - task[t].href <= 1

C18_Terminates ==
  /\ []C18_Bounded
  /\ \A t \in Tasks : (task[t].pc # "idle") ~> (task[t].pc = "idle")

\* A call whose every request was answered 401, the token being fresh, has
\* ended after max_retries requests.
C18_Witness ==
  \E t \in Tasks :
    /\ task[t].op = "auth" /\ task[t].pc = "idle"
    /\ task[t].n401 = MaxRetries /\ task[t].nreq = MaxRetries
    /\ task[t].nref = 0 /\ task[t].result = "APIError"

\* C19 (as claimed): no attempt of a call finds the session handle empty or
\* its session closed.
C19_Claimed == \A t \in Tasks : ~task[t].noSess

\* C20 (as claimed): every session that was created is the one in the handle
\* or has been closed.
C20_Claimed == \A s \in 1..created : s = session \/ s \in closed

\* C21: the task that holds the token lock has the refresh login in flight and
\* nothing else (it is not waiting for the lock); a 401 answer to the refresh
\* ends the operation without another call of _ensure_valid_token; no task
\* holds the lock once its operation has ended, whether the refresh failed or
\* the credentials were missing; and every task waiting for the lock
\* eventually gets it, given that every request is eventually answered or
\* fails.
C21_Inv ==
  \A t \in Tasks :
    /\ token_lock = t
         => task[t].pc = "net" /\ task[t].refreshing
    /\ (task[t].op = "auth" /\ task[t].lastAuth /\ task[t].lastResp = "401")
         => task[t].pc = "idle" /\ task[t].href <= task[t].n401
    /\ task[t].pc \in {"idle", "lock"} => token_lock # t
    /\ task[t].chk = "nocreds" => token_lock = NoTask

C22_Act ==
  \A t \in Tasks :
    /\ (/\ task[t].pc = "net"
        /\ task[t].refreshing \/ task[t].op \in {"login", "signup"}
        /\ task'[t].lastResp \in Outcomes \ {"ok"})
         => /\ token' = token /\ token_expiry' = token_expiry
            /\ email' = email /\ password' = password
            /\ task'[t].pc = "idle" /\ task'[t].result # "ok"
    /\ (task[t].pc = "idle" /\ task'[t] # task[t] /\ task'[t].op = "login")
         => /\ email' = "e1" /\ password' = "p1"
            /\ token' = token /\ token_expiry' = token_expiry
            /\ task'[t].pc = "net" /\ task'[t].sentTok = token

C22_FailedAuthKeepsToken == [][C22_Act]_vars

\* A login has failed on a client whose token came from a signup: it holds
\* the login's credentials and the signup's token.
C22_Witness ==
  \E t, u \in Tasks :
    /\ task[t].op = "login" /\ task[t].pc = "idle" /\ task[t].lastResp = "4xx"
    /\ task[u].op = "signup" /\ task[u].result = "ok"
    /\ email = "e1" /\ password = "p1"
    /\ token # None /\ hist.resp # <<>>

\* C23: signup stores the email and leaves the password as it was.  While no
\* password is stored (no login has been called), an authenticated operation
\* started with the token absent or within the buffer has ended with
\* APIAuthenticationError and issued no request.  A refresh login carries
\* the email and the password stored when it is issued: after a login and a
\* later signup, the signup's email with the login's password.
C23_Inv ==
  \A t \in Tasks :
    /\ (task[t].op = "auth" /\ ~task[t].startFresh /\ password = None)
         => /\ task[t].pc = "idle"
            /\ task[t].result = "APIAuthenticationError"
            /\ task[t].nreq = 0 /\ task[t].nref = 0
    /\ task[t].refreshing
         => /\ task[t].sentCred \in {<<"e1", "p1">>, <<"e2", "p1">>}
            /\ password = "p1"

C23_Act ==
  \A t \in Tasks :
    /\ (task[t].pc = "idle" /\ task'[t] # task[t] /\ task'[t].op = "signup")
         => email' = "e2" /\ password' = password
    /\ (~task[t].refreshing /\ task'[t].refreshing)
         => task'[t].sentCred = <<email, password>>

C23_SignupKeepsSecret == []C23_Inv /\ [][C23_Act]_vars

\* After a login and a later signup, a refresh login is in flight with the
\* signup's email and the login's password.
C23_Witness ==
  \E t \in Tasks :
    /\ task[t].refreshing /\ task[t].pc = "net"
    /\ task[t].sentCred = <<"e2", "p1">>

====
